---- MODULE Spec2Model ----
(***************************************************************************)
(* Appointment slot generation, availability checking, scoring and top-3   *)
(* selection of src/schedule.py.                                           *)
(*                                                                         *)
(* A datetime is an integer number of seconds since Monday 00:00:00 of     *)
(* week 0.  Sub-minute parts (seconds; microseconds behave the same way)   *)
(* are kept, because datetime.replace(hour=9, minute=0) keeps them.        *)
(* Fractions in [0,1] (health complexity, late / no-show history) are      *)
(* hundredths; inventory fractions are tenths.  A score is kept exactly,   *)
(* in units of 1/ScoreScale point.                                         *)
(***************************************************************************)
EXTENDS Integers, Sequences, FiniteSets, TLC

VARIABLES
    schedule,            \* Dict[datetime, TimeSlot]
    staff_roster,        \* Dict[str, Staff]
    visit_type,          \* VisitType of the request
    customer,            \* Customer
    pet,                 \* Pet
    expiring_inventory,  \* Dict[VisitType, float]
    start_date,          \* start_date argument of generate_potential_slots
    pc,                  \* position of the caller
    current_date,        \* generate_potential_slots: local current_date
    days_checked,        \* generate_potential_slots: local days_checked
    potential_slots,     \* generate_potential_slots: local / returned list
    chk_time,            \* _check_staff_availability: argument time
    chk_duration,        \* _check_staff_availability: argument duration
    available_staff,     \* _check_staff_availability: returned set
    proposed_time,       \* calculate_slot_score: argument proposed_time
    score,               \* calculate_slot_score: returned score (scaled)
    time_slot_generator, \* get_three_best_appointments: TRUE iff a generator is passed
    scored_times,        \* get_three_best_appointments: scored_times before the sort
    best,                \* get_three_best_appointments: returned list
    op_pc,               \* callers sharing one snapshot: position of each call
    caller_slots,        \* callers sharing one snapshot: the list passed as potential_slots
    now,                 \* datetime.now() as the calls that read the clock see it
    iteration,           \* generate_dummy_schedule: iterations of the for loop done
    scheduled,           \* ScheduleManager.scheduled
    returned             \* ScheduleManager: outcome of the last call

vars == <<schedule, staff_roster, visit_type, customer, pet, expiring_inventory,
          start_date, pc, current_date, days_checked, potential_slots,
          chk_time, chk_duration, available_staff, proposed_time, score,
          time_slot_generator, scored_times, best, op_pc, caller_slots,
          now, iteration, scheduled, returned>>

----------------------------------------------------------------------------
(* Bounds of the model *)

MaxEntries == 2
MaxStaff == 2
MaxStartDay == 6
MaxAppointments == 2

----------------------------------------------------------------------------
(* datetime *)

DaySeconds == 24 * 3600

At(d, h, m, s) == d * DaySeconds + h * 3600 + m * 60 + s

Minutes(n) == n * 60

Hour(t) == (t % DaySeconds) \div 3600

DayOf(t) == t \div DaySeconds

TimeOfDay(t) == t % DaySeconds

\* datetime.weekday(): Monday = 0 ... Sunday = 6
Weekday(t) == DayOf(t) % 7

\* datetime.replace(hour=h, minute=m): second and microsecond are kept
ReplaceHourMinute(t, h, m) == DayOf(t) * DaySeconds + h * 3600 + m * 60 + (t % 60)

----------------------------------------------------------------------------
(* VisitType, TimeSlotDuration, visit_configs *)

VisitType == {"consult", "wellness", "vaccination", "surgery", "grooming",
              "euthanasia", "dental", "specialty"}

SHORT == 15
STANDARD == 30
EXTENDED == 45
LONG == 60

VisitDurationConfig(mn, rec, mx, pb, pa, ranges) ==
    [min_duration |-> mn, recommended_duration |-> rec, max_duration |-> mx,
     padding_before |-> pb, padding_after |-> pa, preferred_time_ranges |-> ranges]

\* the visit types but the last key of the table
ConfiguredVisitTypes_NoSpecialty ==
    {"consult", "wellness", "vaccination", "surgery", "grooming", "euthanasia", "dental"}

\* the keys of self.visit_configs
ConfiguredVisitTypes ==
    {"consult", "wellness", "vaccination", "surgery", "grooming", "euthanasia", "dental",
     "specialty"}

visit_configs ==
    [vt \in ConfiguredVisitTypes |->
        CASE vt = "consult"     -> VisitDurationConfig(STANDARD, STANDARD, EXTENDED, 5, 5, << <<9, 17>> >>)
          [] vt = "wellness"    -> VisitDurationConfig(STANDARD, STANDARD, EXTENDED, 5, 5, << <<9, 17>> >>)
          [] vt = "vaccination" -> VisitDurationConfig(SHORT, STANDARD, STANDARD, 5, 5, << <<9, 17>> >>)
          [] vt = "surgery"     -> VisitDurationConfig(LONG, LONG, LONG, 15, 15, << <<9, 14>> >>)
          [] vt = "grooming"    -> VisitDurationConfig(EXTENDED, LONG, LONG, 10, 10, << <<9, 16>> >>)
          [] vt = "euthanasia"  -> VisitDurationConfig(EXTENDED, EXTENDED, LONG, 15, 15, << <<10, 16>> >>)
          [] vt = "dental"      -> VisitDurationConfig(LONG, LONG, LONG, 15, 15, << <<9, 14>> >>)
          [] vt = "specialty"   -> VisitDurationConfig(EXTENDED, LONG, LONG, 10, 10, << <<9, 16>> >>)]

----------------------------------------------------------------------------
(* AdvancedTimeSlotGenerator *)

IsTimeInPreferredRange(time, vt) ==
    LET config == visit_configs[vt]
        hour == Hour(time)
    IN  \E i \in 1..Len(config.preferred_time_ranges) :
            /\ config.preferred_time_ranges[i][1] <= hour
            /\ hour <= config.preferred_time_ranges[i][2]

\* the booking loop without the comparison of the staff identifier
RECURSIVE IsBooked_AnyStaff(_, _, _, _, _)
IsBooked_AnyStaff(check_time, time, duration, sched, staff_id) ==
    IF check_time < time + Minutes(duration)
    THEN IF check_time \in DOMAIN sched
         THEN TRUE
         ELSE IsBooked_AnyStaff(check_time + Minutes(15), time, duration, sched, staff_id)
    ELSE FALSE

\* the while loop of _check_staff_availability: TRUE iff the loop breaks with
\* is_available = False
RECURSIVE IsBooked(_, _, _, _, _)
IsBooked(check_time, time, duration, sched, staff_id) ==
    IF check_time < time + Minutes(duration)
    THEN IF check_time \in DOMAIN sched /\ sched[check_time].staff_id = staff_id
         THEN TRUE
         ELSE IsBooked(check_time + Minutes(15), time, duration, sched, staff_id)
    ELSE FALSE

OnLunchBreak(staff, time) ==
    LET lunch_end == staff.lunch_start + 3600
    IN  staff.lunch_start <= time /\ time < lunch_end

CheckStaffAvailability(time, duration, roster, sched, vt) ==
    {staff_id \in DOMAIN roster :
        /\ vt \in roster[staff_id].capabilities
        /\ ~OnLunchBreak(roster[staff_id], time)
        /\ ~IsBooked(time, time, duration, sched, staff_id)}

\* the duration resolution with the thresholds taken inclusively
GenDuration_Inclusive(vt, p) ==
    LET config == visit_configs[vt]
        base_duration == config.recommended_duration
    IN  IF p.health_complexity >= 70 THEN config.max_duration
        ELSE IF p.health_complexity <= 30 THEN config.min_duration
        ELSE base_duration

\* duration resolution of generate_potential_slots
GenDuration(vt, p) ==
    LET config == visit_configs[vt]
        base_duration == config.recommended_duration
    IN  IF p.health_complexity > 70 THEN config.max_duration
        ELSE IF p.health_complexity < 30 THEN config.min_duration
        ELSE base_duration

GetAppointmentDetails(time, vt, p) ==
    LET config == visit_configs[vt]
        duration == IF p.health_complexity > 70 THEN config.max_duration
                    ELSE IF p.health_complexity < 30 THEN config.min_duration
                    ELSE config.recommended_duration
    IN  [start_time |-> time,
         end_time |-> time + Minutes(duration),
         duration |-> duration,
         padding_before |-> config.padding_before,
         padding_after |-> config.padding_after,
         is_preferred_time |-> IsTimeInPreferredRange(time, vt)]

\* a conflict check that leaves out the start time itself
RECURSIVE HasConflict_SkipsStart(_, _, _, _)
HasConflict_SkipsStart(check_time, current_time, duration, sched) ==
    IF check_time < current_time + Minutes(duration)
    THEN IF check_time # current_time /\ check_time \in DOMAIN sched
         THEN TRUE
         ELSE HasConflict_SkipsStart(check_time + Minutes(15), current_time, duration, sched)
    ELSE FALSE

\* a conflict check that looks at the start time only
HasConflict_FirstStep(check_time, current_time, duration, sched) ==
    check_time \in DOMAIN sched

\* the conflict loop of generate_potential_slots
RECURSIVE HasConflict(_, _, _, _)
HasConflict(check_time, current_time, duration, sched) ==
    IF check_time < current_time + Minutes(duration)
    THEN IF check_time \in DOMAIN sched
         THEN TRUE
         ELSE HasConflict(check_time + Minutes(15), current_time, duration, sched)
    ELSE FALSE

\* the criteria with the conflict test negated: a time is appended when an
\* entry is keyed within its duration
SlotMeetsCriteria_ConflictRequired(current_time, duration, sched, roster, vt) ==
    LET config == visit_configs[vt]
    IN  /\ IsTimeInPreferredRange(current_time, vt)
        /\ CheckStaffAvailability(current_time,
                                  duration + config.padding_before + config.padding_after,
                                  roster, sched, vt) # {}
        /\ HasConflict(current_time, current_time, duration, sched)

\* the criteria without the staff availability check
SlotMeetsCriteria_NoStaffCheck(current_time, duration, sched, roster, vt) ==
    /\ IsTimeInPreferredRange(current_time, vt)
    /\ ~HasConflict(current_time, current_time, duration, sched)

\* the criteria one current_time has to meet to be appended
SlotMeetsCriteria(current_time, duration, sched, roster, vt) ==
    LET config == visit_configs[vt]
    IN  /\ IsTimeInPreferredRange(current_time, vt)
        /\ CheckStaffAvailability(current_time,
                                  duration + config.padding_before + config.padding_after,
                                  roster, sched, vt) # {}
        /\ ~HasConflict(current_time, current_time, duration, sched)

\* the inner loop: while current_time.hour < 17
RECURSIVE DaySlots(_, _, _, _, _, _)
DaySlots(current_time, slots, duration, sched, roster, vt) ==
    IF Hour(current_time) < 17
    THEN DaySlots(current_time + Minutes(15),
                  IF SlotMeetsCriteria(current_time, duration, sched, roster, vt)
                  THEN Append(slots, current_time) ELSE slots,
                  duration, sched, roster, vt)
    ELSE slots

\* a weekday test that lets Saturday through
IsBusinessDay_SixDays(date) == Weekday(date) < 6

\* current_date.weekday() < 5
IsBusinessDay(date) == Weekday(date) < 5

\* the loop: while days_checked < 5 (Len(slots) >= 0 holds of every list; it
\* has the list of one day evaluated before the next day is entered)
RECURSIVE GenLoop(_, _, _, _, _, _, _)
GenLoop(date, checked, slots, duration, sched, roster, vt) ==
    IF Len(slots) >= 0 /\ checked < 5
    THEN IF IsBusinessDay(date)
         THEN GenLoop(date + DaySeconds, checked + 1,
                      DaySlots(ReplaceHourMinute(date, 9, 0), slots, duration, sched, roster, vt),
                      duration, sched, roster, vt)
         ELSE GenLoop(date + DaySeconds, checked, slots, duration, sched, roster, vt)
    ELSE slots

\* generate_potential_slots with an explicit start_date
GeneratePotentialSlots(sched, roster, vt, p, start) ==
    GenLoop(start, 0, <<>>, GenDuration(vt, p), sched, roster, vt)

----------------------------------------------------------------------------
(* calculate_slot_score *)

\* scores are exact rationals, held in units of 1/ScoreScale point; every
\* denominator that occurs (roster size, neighbour count) divides ScoreScale
ScoreScale == 3 * 4 * 5

Points(n) == n * ScoreScale

\* points * (num / den)
Ratio(points, num, den) == (Points(points) * num) \div den

Abs(x) == IF x < 0 THEN -x ELSE x

Max(a, b) == IF a >= b THEN a ELSE b

Min(a, b) == IF a <= b THEN a ELSE b

NeighboringSlots(sched, time) == {k \in DOMAIN sched : Abs(k - time) <= 3600}

\* the reliability factor with the two thresholds taken inclusively
ReliabilityFactor_Inclusive(cust, time) ==
    LET peak_hours == 10 <= Hour(time) /\ Hour(time) <= 15
    IN  IF cust.late_history >= 20 \/ cust.no_show_history >= 10
        THEN (IF peak_hours THEN 10 ELSE 5)
        ELSE (IF peak_hours THEN 5 ELSE 10)

\* Factor 7: customer reliability
ReliabilityFactor(cust, time) ==
    LET peak_hours == 10 <= Hour(time) /\ Hour(time) <= 15
    IN  IF cust.late_history > 20 \/ cust.no_show_history > 10
        THEN (IF peak_hours THEN 10 ELSE 5)
        ELSE (IF peak_hours THEN 5 ELSE 10)

\* the padding factor with the distances compared inclusively
PaddingFactor_Inclusive(sched, time, details) ==
    LET before == {k \in DOMAIN sched : Abs(k - time) <= Minutes(details.padding_before)}
        after == {k \in DOMAIN sched : Abs(k - time) <= Minutes(details.padding_after)}
        padding_score == 10 - 2 * Cardinality(before) - 2 * Cardinality(after)
    IN  Max(0, padding_score)

\* the padding factor with the padding_after comparison left out
PaddingFactor_BeforeOnly(sched, time, details) ==
    LET before == {k \in DOMAIN sched : Abs(k - time) < Minutes(details.padding_before)}
        padding_score == 10 - 2 * Cardinality(before)
    IN  Max(0, padding_score)

\* Factor 8: padding time optimization. time_diff is in minutes (a float), so
\* time_diff < padding is compared in seconds
PaddingFactor(sched, time, details) ==
    LET before == {k \in DOMAIN sched : Abs(k - time) < Minutes(details.padding_before)}
        after == {k \in DOMAIN sched : Abs(k - time) < Minutes(details.padding_after)}
        padding_score == 10 - 2 * Cardinality(before) - 2 * Cardinality(after)
    IN  Max(0, padding_score)

\* the score with the staff factor contributing 0 instead of gating
CalculateSlotScore_NoGate(time, sched, roster, vt, cust, p, inventory) ==
    LET details == GetAppointmentDetails(time, vt, p)
        available == CheckStaffAvailability(time, details.duration, roster, sched, vt)
        neighboring_slots == NeighboringSlots(sched, time)
        similar_type_count == Cardinality({k \in neighboring_slots : sched[k].visit_type = vt})
        same_species_count == Cardinality({k \in neighboring_slots : sched[k].species = p.species})
        n == Max(1, Cardinality(neighboring_slots))
    IN    Ratio(20, Cardinality(available), Max(1, Cardinality(DOMAIN roster)))
        + Ratio(15, similar_type_count, n)
        + Ratio(15, same_species_count, n)
        + (IF details.duration >= details.duration THEN Points(10) ELSE Points(5))
        + (IF details.is_preferred_time THEN Points(10) ELSE 0)
        + (IF vt \in DOMAIN inventory THEN (Points(10) * inventory[vt]) \div 10 ELSE 0)
        + Points(ReliabilityFactor(cust, time))
        + Points(PaddingFactor(sched, time, details))

\* the score with the two alignment counts taken over the whole schedule
CalculateSlotScore_CountAll(time, sched, roster, vt, cust, p, inventory) ==
    LET details == GetAppointmentDetails(time, vt, p)
        available == CheckStaffAvailability(time, details.duration, roster, sched, vt)
        neighboring_slots == NeighboringSlots(sched, time)
        similar_type_count == Cardinality({k \in DOMAIN sched : sched[k].visit_type = vt})
        same_species_count == Cardinality({k \in DOMAIN sched : sched[k].species = p.species})
        n == Max(1, Cardinality(neighboring_slots))
    IN  IF available = {}
        THEN 0
        ELSE   Ratio(20, Cardinality(available), Cardinality(DOMAIN roster))
             + Ratio(15, similar_type_count, n)
             + Ratio(15, same_species_count, n)
             + (IF details.duration >= details.duration THEN Points(10) ELSE Points(5))
             + (IF details.is_preferred_time THEN Points(10) ELSE 0)
             + (IF vt \in DOMAIN inventory THEN (Points(10) * inventory[vt]) \div 10 ELSE 0)
             + Points(ReliabilityFactor(cust, time))
             + Points(PaddingFactor(sched, time, details))

\* the score with a flat 10 points for a category the inventory mapping holds
CalculateSlotScore_InventoryFlat(time, sched, roster, vt, cust, p, inventory) ==
    LET details == GetAppointmentDetails(time, vt, p)
        available == CheckStaffAvailability(time, details.duration, roster, sched, vt)
        neighboring_slots == NeighboringSlots(sched, time)
        similar_type_count == Cardinality({k \in neighboring_slots : sched[k].visit_type = vt})
        same_species_count == Cardinality({k \in neighboring_slots : sched[k].species = p.species})
        n == Max(1, Cardinality(neighboring_slots))
    IN  IF available = {}
        THEN 0
        ELSE   Ratio(20, Cardinality(available), Cardinality(DOMAIN roster))
             + Ratio(15, similar_type_count, n)
             + Ratio(15, same_species_count, n)
             + (IF details.duration >= details.duration THEN Points(10) ELSE Points(5))
             + (IF details.is_preferred_time THEN Points(10) ELSE 0)
             + (IF vt \in DOMAIN inventory THEN Points(10) ELSE 0)
             + Points(ReliabilityFactor(cust, time))
             + Points(PaddingFactor(sched, time, details))

CalculateSlotScore(time, sched, roster, vt, cust, p, inventory) ==
    LET details == GetAppointmentDetails(time, vt, p)
        available == CheckStaffAvailability(time, details.duration, roster, sched, vt)
        neighboring_slots == NeighboringSlots(sched, time)
        similar_type_count == Cardinality({k \in neighboring_slots : sched[k].visit_type = vt})
        same_species_count == Cardinality({k \in neighboring_slots : sched[k].species = p.species})
        n == Max(1, Cardinality(neighboring_slots))
    IN  IF available = {}
        THEN 0
        ELSE   Ratio(20, Cardinality(available), Cardinality(DOMAIN roster))
             + Ratio(15, similar_type_count, n)
             + Ratio(15, same_species_count, n)
             + (IF details.duration >= details.duration THEN Points(10) ELSE Points(5))
             + (IF details.is_preferred_time THEN Points(10) ELSE 0)
             + (IF vt \in DOMAIN inventory THEN (Points(10) * inventory[vt]) \div 10 ELSE 0)
             + Points(ReliabilityFactor(cust, time))
             + Points(PaddingFactor(sched, time, details))

----------------------------------------------------------------------------
(* get_three_best_appointments *)

\* the ranking score without the penalty for non-preferred times
RankingScore_NoPenalty(time, sched, roster, vt, cust, p, inventory, generator) ==
    IF generator
    THEN LET details == GetAppointmentDetails(time, vt, p)
         IN    CalculateSlotScore(time, sched, roster, vt, cust, p, inventory)
             + (IF details.duration = visit_configs[vt].recommended_duration
                THEN Points(5) ELSE 0)
    ELSE 0

\* the score a potential slot is ranked by
RankingScore(time, sched, roster, vt, cust, p, inventory, generator) ==
    IF generator
    THEN LET details == GetAppointmentDetails(time, vt, p)
         IN    CalculateSlotScore(time, sched, roster, vt, cust, p, inventory)
             + (IF details.duration = visit_configs[vt].recommended_duration
                THEN Points(5) ELSE 0)
             - (IF ~details.is_preferred_time THEN Points(10) ELSE 0)
    ELSE 0

\* the default slots stepped by 15 minutes instead of 30
RECURSIVE DefaultSlots_QuarterHours(_, _)
DefaultSlots_QuarterHours(sched, current) ==
    IF Hour(current) < 17
    THEN (IF current \notin DOMAIN sched THEN <<current>> ELSE <<>>)
         \o DefaultSlots_QuarterHours(sched, current + Minutes(15))
    ELSE <<>>

\* potential_slots is None: the while loop from current_date on, every 30
\* minutes while current_date.hour < 17, keeping what is not a key of schedule
RECURSIVE DefaultSlots(_, _)
DefaultSlots(sched, current) ==
    IF Hour(current) < 17
    THEN (IF current \notin DOMAIN sched THEN <<current>> ELSE <<>>)
         \o DefaultSlots(sched, current + Minutes(30))
    ELSE <<>>

ScoredTimes(slots, sched, roster, vt, cust, p, inventory, generator) ==
    [i \in 1..Len(slots) |->
        <<slots[i], RankingScore(slots[i], sched, roster, vt, cust, p, inventory, generator)>>]

\* list.sort(key=lambda x: x[1], reverse=True): a stable sort, descending by
\* score; x goes behind every element whose score is not smaller
\* an unstable insertion: x goes in front of the elements of equal score
RECURSIVE InsertByScore_Unstable(_, _)
InsertByScore_Unstable(x, sorted) ==
    IF sorted = <<>> THEN <<x>>
    ELSE IF Head(sorted)[2] > x[2]
         THEN <<Head(sorted)>> \o InsertByScore_Unstable(x, Tail(sorted))
         ELSE <<x>> \o sorted

\* the insertion of a sort without reverse=True: ascending by score
RECURSIVE InsertByScore_Ascending(_, _)
InsertByScore_Ascending(x, sorted) ==
    IF sorted = <<>> THEN <<x>>
    ELSE IF Head(sorted)[2] <= x[2]
         THEN <<Head(sorted)>> \o InsertByScore_Ascending(x, Tail(sorted))
         ELSE <<x>> \o sorted

RECURSIVE InsertByScore(_, _)
InsertByScore(x, sorted) ==
    IF sorted = <<>> THEN <<x>>
    ELSE IF Head(sorted)[2] >= x[2]
         THEN <<Head(sorted)>> \o InsertByScore(x, Tail(sorted))
         ELSE <<x>> \o sorted

RECURSIVE SortByScore(_, _)
SortByScore(todo, sorted) ==
    IF todo = <<>> THEN sorted
    ELSE SortByScore(Tail(todo), InsertByScore(Head(todo), sorted))

\* [time for time, score in scored_times[:3]]
TopThree(scored) ==
    LET sorted == SortByScore(scored, <<>>)
    IN  [i \in 1..Min(3, Len(sorted)) |-> sorted[i][1]]

----------------------------------------------------------------------------
(* The inputs the operations are applied to *)

TimeSlot(start, duration, vt, staff_id, species) ==
    [start_time |-> start, end_time |-> start + Minutes(duration),
     visit_type |-> vt, staff_id |-> staff_id, species |-> species]

Staff(id, capabilities, lunch_start) ==
    [id |-> id, capabilities |-> capabilities, lunch_start |-> lunch_start]

Customer(id, late_history, no_show_history) ==
    [id |-> id, late_history |-> late_history, no_show_history |-> no_show_history]

Pet(id, species, health_complexity) ==
    [id |-> id, species |-> species, health_complexity |-> health_complexity,
     visit_history |-> <<>>]

\* existing appointments a schedule is made of: Tuesday of week 0 and Monday
\* of week 1, on and off the 15-minute marks
EntryPool ==
    { TimeSlot(At(1, 9, 0, 0), 30, "vaccination", "staff1", "dog"),
      TimeSlot(At(1, 9, 30, 0), 30, "vaccination", "staff2", "dog"),
      TimeSlot(At(1, 10, 0, 0), 60, "surgery", "staff2", "cat"),
      TimeSlot(At(1, 9, 40, 0), 30, "consult", "staff1", "dog"),
      TimeSlot(At(7, 9, 15, 0), 30, "wellness", "staff1", "cat"),
      TimeSlot(At(1, 9, 0, 30), 30, "vaccination", "staff1", "dog") }

\* a schedule is keyed by the start time of its entries
ScheduleOf(entries) ==
    [k \in {e.start_time : e \in entries} |-> CHOOSE e \in entries : e.start_time = k]

Schedules == {ScheduleOf(es) : es \in {x \in SUBSET EntryPool : Cardinality(x) <= MaxEntries}}

StaffPool ==
    { Staff("staff1", {"vaccination", "wellness", "consult", "surgery", "euthanasia"},
            At(1, 12, 0, 0)),
      Staff("staff2", {"surgery", "dental", "specialty", "grooming", "vaccination"},
            At(1, 13, 0, 0)),
      Staff("staff3", {"vaccination", "wellness", "grooming"}, At(7, 11, 0, 0)) }

RosterOf(staff) == [id \in {s.id : s \in staff} |-> CHOOSE s \in staff : s.id = id]

Rosters == {RosterOf(ss) : ss \in {x \in SUBSET StaffPool : Cardinality(x) <= MaxStaff}}

Pets == { Pet("pet1", "dog", 20), Pet("pet1", "dog", 50), Pet("pet1", "dog", 80) }

Customers == { Customer("cust1", 10, 5), Customer("cust2", 30, 5) }

NoInventory == [vt \in {} |-> 0]

Inventories ==
    { NoInventory,
      [vt \in {"vaccination", "surgery"} |-> IF vt = "vaccination" THEN 10 ELSE 5],
      [vt \in {"consult", "vaccination"} |-> IF vt = "consult" THEN 15 ELSE 0] }

\* start_date arguments: every weekday at 09:00:00, and two with a time of
\* day such as datetime.now() gives
StartDates ==
    {At(d, 9, 0, 0) : d \in 0..MaxStartDay} \cup {At(1, 13, 20, 30), At(4, 18, 5, 0)}

\* the schedules and start dates of the runs that vary schedule and roster
GenSchedules == {sch \in Schedules : \A k \in DOMAIN sch : DayOf(k) = 1 /\ TimeOfDay(k) # At(0, 9, 40, 0)}

GenStartDates == {At(0, 9, 0, 0), At(1, 13, 20, 30)}

\* the schedules and rosters of the runs that vary the start date
HorizonSchedules ==
    {sch \in Schedules : DOMAIN sch \in {{}, {At(1, 9, 0, 0), At(7, 9, 15, 0)}}}

HorizonRosters == {r \in Rosters : DOMAIN r \in {{"staff1"}, {"staff1", "staff2"}}}

\* proposed times of the availability check and of the scorer
ProbeTimes ==
    { At(1, 9, 0, 0), At(1, 9, 30, 0), At(1, 9, 45, 0), At(1, 10, 0, 0),
      At(1, 12, 0, 0), At(1, 13, 0, 0), At(1, 15, 0, 0), At(1, 18, 0, 0),
      At(7, 11, 30, 0), At(1, 15, 45, 0), At(1, 16, 0, 0) }

ProbeDurations == {15, 30, 40, 60, 90}

\* caller-supplied potential_slots
SuppliedSlots ==
    { <<>>,
      <<At(1, 10, 0, 0)>>,
      <<At(1, 9, 0, 0), At(1, 10, 0, 0)>>,
      <<At(1, 9, 30, 0), At(1, 15, 0, 0), At(1, 9, 45, 0), At(1, 10, 0, 0)>>,
      <<At(1, 18, 0, 0), At(1, 10, 0, 0), At(1, 9, 30, 0), At(1, 15, 0, 0), At(1, 12, 0, 0)>> }

\* the calls that callers sharing one snapshot make
Operations == {"generate", "check", "score", "select"}

----------------------------------------------------------------------------
(* Initial states *)

\* the clock is not read, generate_dummy_schedule is not running and the
\* ScheduleManager is as constructed
NoOtherCall ==
    /\ now = 0
    /\ iteration = 0
    /\ scheduled = <<>>
    /\ returned = "none"

NoCall ==
    /\ pc = "start"
    /\ current_date = 0
    /\ days_checked = 0
    /\ potential_slots = <<>>
    /\ chk_time = 0
    /\ chk_duration = 0
    /\ available_staff = {}
    /\ proposed_time = 0
    /\ score = 0
    /\ time_slot_generator = TRUE
    /\ scored_times = <<>>
    /\ best = <<>>
    /\ op_pc = [op \in Operations |-> "idle"]
    /\ caller_slots = <<>>
    /\ NoOtherCall

\* scoring and selection: every input but the start date varies
Init ==
    /\ schedule \in Schedules
    /\ staff_roster \in Rosters
    /\ visit_type \in VisitType
    /\ customer \in Customers
    /\ pet \in Pets
    /\ expiring_inventory \in Inventories
    /\ start_date = At(1, 9, 0, 0)
    /\ NoCall

\* slot generation over varying schedules and rosters; customer and inventory
\* are not read
InitGen ==
    /\ schedule \in GenSchedules
    /\ staff_roster \in Rosters
    /\ visit_type \in VisitType
    /\ customer = Customer("cust1", 10, 5)
    /\ pet \in Pets
    /\ expiring_inventory = NoInventory
    /\ start_date \in GenStartDates
    /\ NoCall

\* slot generation over varying start dates
InitHorizon ==
    /\ schedule \in HorizonSchedules
    /\ staff_roster \in HorizonRosters
    /\ visit_type \in VisitType
    /\ customer = Customer("cust1", 10, 5)
    /\ pet = Pet("pet1", "dog", 50)
    /\ expiring_inventory = NoInventory
    /\ start_date \in StartDates
    /\ NoCall

\* availability check
InitAvail ==
    /\ schedule \in Schedules
    /\ staff_roster \in Rosters
    /\ visit_type \in VisitType
    /\ customer = Customer("cust1", 10, 5)
    /\ pet = Pet("pet1", "dog", 50)
    /\ expiring_inventory = NoInventory
    /\ start_date = At(1, 9, 0, 0)
    /\ NoCall

----------------------------------------------------------------------------
(* Actions *)

inputs == <<schedule, staff_roster, visit_type, customer, pet, expiring_inventory,
            start_date>>

gen_vars == <<current_date, days_checked, potential_slots>>

chk_vars == <<chk_time, chk_duration, available_staff>>

score_vars == <<proposed_time, score>>

best_vars == <<time_slot_generator, scored_times, best>>

shared_vars == <<op_pc, caller_slots>>

manager_vars == <<scheduled, returned>>

other_vars == <<now, iteration, manager_vars>>

\* generate_potential_slots, up to the loop
GenerateStart ==
    /\ pc = "start"
    /\ pc' = "gen"
    /\ current_date' = start_date
    /\ days_checked' = 0
    /\ potential_slots' = <<>>
    /\ UNCHANGED <<inputs, other_vars, shared_vars, chk_vars, score_vars, best_vars>>

\* the loop body with current_date advanced on weekend days only
GenerateDay_SameDay ==
    /\ pc = "gen"
    /\ days_checked < 5
    /\ IF IsBusinessDay(current_date)
       THEN /\ potential_slots' = DaySlots(ReplaceHourMinute(current_date, 9, 0),
                                           potential_slots, GenDuration(visit_type, pet),
                                           schedule, staff_roster, visit_type)
            /\ days_checked' = days_checked + 1
            /\ current_date' = current_date
       ELSE /\ UNCHANGED <<potential_slots, days_checked>>
            /\ current_date' = current_date + DaySeconds
    /\ UNCHANGED <<inputs, other_vars, shared_vars, pc, chk_vars, score_vars, best_vars>>

\* the loop body with current_date advanced on business days only
GenerateDay_WeekendStuck ==
    /\ pc = "gen"
    /\ days_checked < 5
    /\ IF IsBusinessDay(current_date)
       THEN /\ potential_slots' = DaySlots(ReplaceHourMinute(current_date, 9, 0),
                                           potential_slots, GenDuration(visit_type, pet),
                                           schedule, staff_roster, visit_type)
            /\ days_checked' = days_checked + 1
            /\ current_date' = current_date + DaySeconds
       ELSE UNCHANGED <<potential_slots, days_checked, current_date>>
    /\ UNCHANGED <<inputs, other_vars, shared_vars, pc, chk_vars, score_vars, best_vars>>

\* one iteration of the loop over the days
GenerateDay ==
    /\ pc = "gen"
    /\ days_checked < 5
    /\ IF IsBusinessDay(current_date)
       THEN /\ potential_slots' = DaySlots(ReplaceHourMinute(current_date, 9, 0),
                                           potential_slots, GenDuration(visit_type, pet),
                                           schedule, staff_roster, visit_type)
            /\ days_checked' = days_checked + 1
       ELSE UNCHANGED <<potential_slots, days_checked>>
    /\ current_date' = current_date + DaySeconds
    /\ UNCHANGED <<inputs, other_vars, shared_vars, pc, chk_vars, score_vars, best_vars>>

\* return potential_slots
GenerateReturn ==
    /\ pc = "gen"
    /\ ~(days_checked < 5)
    /\ pc' = "generated"
    /\ UNCHANGED <<inputs, other_vars, shared_vars, gen_vars, chk_vars, score_vars, best_vars>>

\* a call of _check_staff_availability
CheckAvail ==
    /\ pc = "start"
    /\ \E t \in ProbeTimes, d \in ProbeDurations :
          /\ chk_time' = t
          /\ chk_duration' = d
          /\ available_staff' = CheckStaffAvailability(t, d, staff_roster, schedule, visit_type)
    /\ pc' = "checked"
    /\ UNCHANGED <<inputs, other_vars, shared_vars, gen_vars, score_vars, best_vars>>

\* a call of calculate_slot_score
Score ==
    /\ pc = "start"
    /\ \E t \in ProbeTimes :
          /\ proposed_time' = t
          /\ score' = CalculateSlotScore(t, schedule, staff_roster, visit_type, customer,
                                         pet, expiring_inventory)
    /\ pc' = "scored"
    /\ UNCHANGED <<inputs, other_vars, shared_vars, gen_vars, chk_vars, best_vars>>

\* a call of get_three_best_appointments with potential_slots given
SelectBest ==
    /\ pc = "start"
    /\ \E slots \in SuppliedSlots, generator \in BOOLEAN :
          LET scored == ScoredTimes(slots, schedule, staff_roster, visit_type, customer,
                                    pet, expiring_inventory, generator)
          IN  /\ potential_slots' = slots
              /\ time_slot_generator' = generator
              /\ scored_times' = scored
              /\ best' = TopThree(scored)
    /\ pc' = "selected"
    /\ UNCHANGED <<inputs, other_vars, shared_vars, current_date, days_checked, chk_vars,
                   score_vars>>

Next == Score \/ SelectBest

Spec == Init /\ [][Next]_vars

NextGen == GenerateStart \/ GenerateDay \/ GenerateReturn

SpecGen == InitGen /\ [][NextGen]_vars

\* the call runs on: a started loop is run to its end
SpecHorizon == InitHorizon /\ [][NextGen]_vars /\ WF_vars(NextGen)

NextAvail == CheckAvail

SpecAvail == InitAvail /\ [][NextAvail]_vars

----------------------------------------------------------------------------
(* Callers sharing one snapshot: each of the four calls is made once, and  *)
(* the steps of the calls interleave.  The schedule, the roster, the       *)
(* inventory and the list passed as potential_slots are the shared data.   *)

SharedVisitTypes == {"vaccination", "surgery"}

SharedInventories == {inv \in Inventories : "surgery" \in DOMAIN inv \/ DOMAIN inv = {}}

SharedSlots == {slots \in SuppliedSlots : Len(slots) \in {2, 5}}

SharedProbes == {At(1, 9, 0, 0), At(1, 10, 0, 0)}

InitShared ==
    /\ schedule \in HorizonSchedules
    /\ staff_roster \in HorizonRosters
    /\ visit_type \in SharedVisitTypes
    /\ customer = Customer("cust1", 10, 5)
    /\ pet = Pet("pet1", "dog", 50)
    /\ expiring_inventory \in SharedInventories
    /\ start_date = At(0, 9, 0, 0)
    /\ pc = "start"
    /\ current_date = 0
    /\ days_checked = 0
    /\ potential_slots = <<>>
    /\ chk_time = 0
    /\ chk_duration = 0
    /\ available_staff = {}
    /\ proposed_time = 0
    /\ score = 0
    /\ time_slot_generator = TRUE
    /\ scored_times = <<>>
    /\ best = <<>>
    /\ op_pc = [op \in Operations |-> "idle"]
    /\ caller_slots \in SharedSlots
    /\ NoOtherCall

\* generate_potential_slots, up to the loop
SharedGenerateStart ==
    /\ op_pc["generate"] = "idle"
    /\ op_pc' = [op_pc EXCEPT !["generate"] = "running"]
    /\ current_date' = start_date
    /\ days_checked' = 0
    /\ potential_slots' = <<>>
    /\ UNCHANGED <<inputs, other_vars, pc, caller_slots, chk_vars, score_vars, best_vars>>

\* one iteration of the loop over the days
SharedGenerateDay ==
    /\ op_pc["generate"] = "running"
    /\ days_checked < 5
    /\ IF IsBusinessDay(current_date)
       THEN /\ potential_slots' = DaySlots(ReplaceHourMinute(current_date, 9, 0),
                                           potential_slots, GenDuration(visit_type, pet),
                                           schedule, staff_roster, visit_type)
            /\ days_checked' = days_checked + 1
       ELSE UNCHANGED <<potential_slots, days_checked>>
    /\ current_date' = current_date + DaySeconds
    /\ UNCHANGED <<inputs, other_vars, pc, shared_vars, chk_vars, score_vars, best_vars>>

\* return potential_slots
SharedGenerateReturn ==
    /\ op_pc["generate"] = "running"
    /\ ~(days_checked < 5)
    /\ op_pc' = [op_pc EXCEPT !["generate"] = "done"]
    /\ UNCHANGED <<inputs, other_vars, pc, caller_slots, gen_vars, chk_vars, score_vars, best_vars>>

\* a call of _check_staff_availability
SharedCheckAvail ==
    /\ op_pc["check"] = "idle"
    /\ \E t \in SharedProbes :
          /\ chk_time' = t
          /\ chk_duration' = GetAppointmentDetails(t, visit_type, pet).duration
          /\ available_staff' = CheckStaffAvailability(t, chk_duration', staff_roster,
                                                       schedule, visit_type)
    /\ op_pc' = [op_pc EXCEPT !["check"] = "done"]
    /\ UNCHANGED <<inputs, other_vars, pc, caller_slots, gen_vars, score_vars, best_vars>>

\* a call of calculate_slot_score (get_appointment_details is called by it)
SharedScore ==
    /\ op_pc["score"] = "idle"
    /\ \E t \in SharedProbes :
          /\ proposed_time' = t
          /\ score' = CalculateSlotScore(t, schedule, staff_roster, visit_type, customer,
                                         pet, expiring_inventory)
    /\ op_pc' = [op_pc EXCEPT !["score"] = "done"]
    /\ UNCHANGED <<inputs, other_vars, pc, caller_slots, gen_vars, chk_vars, best_vars>>

\* get_three_best_appointments sorting the list it was passed
SharedSelectBest_SortsCallerList ==
    /\ op_pc["select"] = "idle"
    /\ \E generator \in BOOLEAN :
          LET scored == ScoredTimes(caller_slots, schedule, staff_roster, visit_type,
                                    customer, pet, expiring_inventory, generator)
              sorted == SortByScore(scored, <<>>)
          IN  /\ time_slot_generator' = generator
              /\ scored_times' = scored
              /\ caller_slots' = [i \in 1..Len(sorted) |-> sorted[i][1]]
              /\ best' = TopThree(scored)
    /\ op_pc' = [op_pc EXCEPT !["select"] = "done"]
    /\ UNCHANGED <<inputs, other_vars, pc, gen_vars, chk_vars, score_vars>>

\* a call of get_three_best_appointments with the caller's list; the sort is
\* applied to the local scored_times
SharedSelectBest ==
    /\ op_pc["select"] = "idle"
    /\ \E generator \in BOOLEAN :
          LET scored == ScoredTimes(caller_slots, schedule, staff_roster, visit_type,
                                    customer, pet, expiring_inventory, generator)
          IN  /\ time_slot_generator' = generator
              /\ scored_times' = scored
              /\ best' = TopThree(scored)
    /\ op_pc' = [op_pc EXCEPT !["select"] = "done"]
    /\ UNCHANGED <<inputs, other_vars, pc, caller_slots, gen_vars, chk_vars, score_vars>>

NextShared ==
    \/ SharedGenerateStart
    \/ SharedGenerateDay
    \/ SharedGenerateReturn
    \/ SharedCheckAvail
    \/ SharedScore
    \/ SharedSelectBest

SpecShared == InitShared /\ [][NextShared]_vars

----------------------------------------------------------------------------
(* Slot generation over schedules that book a staff member at every        *)
(* 15-minute step of whole days                                            *)

\* the business days of the horizons of BookedStartDates
BookedDays == {0, 1, 2, 3, 4, 7}

\* an entry of staff_id keyed at every 15-minute step from 09:00 to 16:45 of days
FullBooking(staff_id, days) ==
    ScheduleOf({TimeSlot(At(d, h, m, 0), 15, "vaccination", staff_id, "dog") :
                   d \in days, h \in 9..16, m \in {0, 15, 30, 45}})

BookedSchedules ==
    { FullBooking("staff1", BookedDays),
      FullBooking("staff2", BookedDays),
      FullBooking("staff1", BookedDays \ {2}),
      FullBooking("staff1", {1}) }

BookedStartDates == {At(0, 9, 0, 0), At(1, 9, 0, 0), At(1, 13, 20, 30)}

BookedVisitTypes == {"vaccination", "wellness"}

InitBooked ==
    /\ schedule \in BookedSchedules
    /\ staff_roster \in Rosters
    /\ visit_type \in BookedVisitTypes
    /\ customer = Customer("cust1", 10, 5)
    /\ pet \in Pets
    /\ expiring_inventory = NoInventory
    /\ start_date \in BookedStartDates
    /\ NoCall

SpecBooked == InitBooked /\ [][NextGen]_vars

----------------------------------------------------------------------------
(* Scoring of proposed times that have schedule entries at and just inside *)
(* the padding distances, for customers and pets at and next to the        *)
(* thresholds of the factors                                               *)

\* entries 4, 9 and 14 minutes, and 5, 10 and 15 minutes, from Tuesday 10:00,
\* of a staff member who is not on the roster
FactorEntryPool ==
    { TimeSlot(At(1, 10, 4, 0), 15, "vaccination", "staff3", "dog"),
      TimeSlot(At(1, 9, 51, 0), 15, "grooming", "staff3", "cat"),
      TimeSlot(At(1, 10, 14, 0), 15, "surgery", "staff3", "dog"),
      TimeSlot(At(1, 10, 5, 0), 15, "vaccination", "staff3", "cat"),
      TimeSlot(At(1, 9, 50, 0), 15, "grooming", "staff3", "dog"),
      TimeSlot(At(1, 10, 15, 0), 15, "surgery", "staff3", "cat") }

\* three entries within five minutes of Tuesday 10:00
CrowdedSchedule ==
    ScheduleOf({ TimeSlot(At(1, 10, 1, 0), 15, "vaccination", "staff3", "dog"),
                 TimeSlot(At(1, 9, 58, 0), 15, "vaccination", "staff3", "dog"),
                 TimeSlot(At(1, 10, 4, 0), 15, "vaccination", "staff3", "dog") })

FactorSchedules ==
    {ScheduleOf(es) : es \in {x \in SUBSET FactorEntryPool : Cardinality(x) <= MaxEntries}}
        \cup {CrowdedSchedule}

FactorCustomers ==
    { Customer("cust1", 20, 10), Customer("cust2", 21, 10), Customer("cust3", 20, 11),
      Customer("cust4", 0, 0) }

FactorPets ==
    { Pet("pet1", "dog", 29), Pet("pet1", "dog", 30), Pet("pet1", "dog", 70),
      Pet("pet1", "cat", 71) }

FactorInventories ==
    {NoInventory, [vt \in {"vaccination"} |-> 10], [vt \in {"surgery"} |-> 5]}

InitFactors ==
    /\ schedule \in FactorSchedules
    /\ staff_roster \in HorizonRosters
    /\ visit_type \in VisitType
    /\ customer \in FactorCustomers
    /\ pet \in FactorPets
    /\ expiring_inventory \in FactorInventories
    /\ start_date = At(1, 9, 0, 0)
    /\ NoCall

NextFactors == Score

SpecFactors == InitFactors /\ [][NextFactors]_vars

----------------------------------------------------------------------------
(* generate_dummy_schedule of src/pages/new_booking.py: passes that        *)
(* generate candidates from the schedule built so far, pick one and book   *)
(* it, one after the other                                                 *)

BookingNows == {At(1, 8, 5, 10), At(1, 14, 40, 0)}

BookingVisitTypes == {"vaccination", "surgery", "dental"}

\* the candidates random.choice(potential_slots) is drawn from
BookingTimes == {At(1, 9, 0, 0), At(1, 9, 15, 0), At(1, 9, 30, 0), At(1, 9, 45, 0)}

species_list == {"dog", "cat"}

InitBooking ==
    /\ schedule = ScheduleOf({})
    /\ staff_roster \in HorizonRosters
    /\ visit_type \in BookingVisitTypes
    /\ customer = Customer("cust1", 10, 5)
    /\ pet = Pet("dummy", "dog", 50)
    /\ expiring_inventory = NoInventory
    /\ now \in BookingNows
    /\ start_date = At(DayOf(now), 9, 0, 0)
    /\ pc = "start"
    /\ current_date = 0
    /\ days_checked = 0
    /\ potential_slots = <<>>
    /\ chk_time = 0
    /\ chk_duration = 0
    /\ available_staff = {}
    /\ proposed_time = 0
    /\ score = 0
    /\ time_slot_generator = TRUE
    /\ scored_times = <<>>
    /\ best = <<>>
    /\ op_pc = [op \in Operations |-> "idle"]
    /\ caller_slots = <<>>
    /\ iteration = 0
    /\ scheduled = <<>>
    /\ returned = "none"

booking_frame == <<staff_roster, customer, pet, expiring_inventory, start_date, now, pc,
                   current_date, days_checked, score_vars, best_vars, shared_vars,
                   manager_vars>>

\* one iteration of the for loop: nothing is booked when no candidate is
\* generated
BookNothing ==
    /\ pc = "start"
    /\ iteration < MaxAppointments
    /\ \E vt \in BookingVisitTypes :
          /\ visit_type' = vt
          /\ potential_slots' = GeneratePotentialSlots(schedule, staff_roster, vt, pet,
                                                       start_date)
    /\ potential_slots' = <<>>
    /\ iteration' = iteration + 1
    /\ UNCHANGED <<schedule, chk_vars, booking_frame>>

\* one iteration of the for loop: a candidate and one of its available staff
\* are picked and booked as schedule[time]
BookAppointment ==
    /\ pc = "start"
    /\ iteration < MaxAppointments
    /\ \E vt \in BookingVisitTypes :
          /\ visit_type' = vt
          /\ potential_slots' = GeneratePotentialSlots(schedule, staff_roster, vt, pet,
                                                       start_date)
    /\ \E i \in 1..Len(potential_slots') :
          /\ potential_slots'[i] \in BookingTimes
          /\ chk_time' = potential_slots'[i]
    /\ chk_duration' = GetAppointmentDetails(chk_time', visit_type', pet).duration
    /\ available_staff' = CheckStaffAvailability(chk_time', chk_duration', staff_roster,
                                                 schedule, visit_type')
    /\ IF available_staff' # {}
       THEN \E staff_id \in available_staff', species \in species_list :
               schedule' = [k \in DOMAIN schedule \cup {chk_time'} |->
                               IF k = chk_time'
                               THEN TimeSlot(chk_time', chk_duration', visit_type', staff_id,
                                             species)
                               ELSE schedule[k]]
       ELSE schedule' = schedule
    /\ iteration' = iteration + 1
    /\ UNCHANGED booking_frame

\* return schedule
BookingReturn ==
    /\ pc = "start"
    /\ ~(iteration < MaxAppointments)
    /\ pc' = "booked"
    /\ UNCHANGED <<inputs, other_vars, shared_vars, gen_vars, chk_vars, score_vars,
                   best_vars>>

NextBooking == BookNothing \/ BookAppointment \/ BookingReturn

SpecBooking == InitBooking /\ [][NextBooking]_vars

----------------------------------------------------------------------------
(* get_three_best_appointments with its optional arguments: potential_slots *)
(* given or left at None, time_slot_generator given or left at None         *)

\* datetime.now() of the call: before, within and after the working day
DefaultNows == {At(1, 8, 5, 10), At(1, 14, 40, 0), At(7, 17, 30, 0)}

DefaultSchedules == {sch \in Schedules : \A k \in DOMAIN sch : DayOf(k) = 1}

DefaultVisitTypes == {"vaccination", "surgery"}

InitDefault ==
    /\ schedule \in DefaultSchedules
    /\ staff_roster \in HorizonRosters
    /\ visit_type \in DefaultVisitTypes
    /\ customer \in Customers
    /\ pet \in Pets
    /\ expiring_inventory \in Inventories
    /\ now \in DefaultNows
    /\ start_date = At(1, 9, 0, 0)
    /\ pc = "start"
    /\ current_date = 0
    /\ days_checked = 0
    /\ potential_slots = <<>>
    /\ chk_time = 0
    /\ chk_duration = 0
    /\ available_staff = {}
    /\ proposed_time = 0
    /\ score = 0
    /\ time_slot_generator = TRUE
    /\ scored_times = <<>>
    /\ best = <<>>
    /\ op_pc = [op \in Operations |-> "idle"]
    /\ caller_slots = <<>>
    /\ iteration = 0
    /\ scheduled = <<>>
    /\ returned = "none"

\* a call of get_three_best_appointments with potential_slots left at None
SelectBestDefault ==
    /\ pc = "start"
    /\ \E generator \in BOOLEAN :
          LET slots == DefaultSlots(schedule, At(DayOf(now), 9, 0, 0))
              scored == ScoredTimes(slots, schedule, staff_roster, visit_type, customer,
                                    pet, expiring_inventory, generator)
          IN  /\ potential_slots' = slots
              /\ time_slot_generator' = generator
              /\ scored_times' = scored
              /\ best' = TopThree(scored)
    /\ pc' = "selected_default"
    /\ UNCHANGED <<inputs, other_vars, shared_vars, current_date, days_checked, chk_vars,
                   score_vars>>

NextDefault == SelectBest \/ SelectBestDefault

SpecDefault == InitDefault /\ [][NextDefault]_vars

----------------------------------------------------------------------------
(* ScheduleManager of src/research/schedule.py: schedule_appointment and   *)
(* clear_schedules called in any order on one manager                      *)

vets == {"sri", "saurabh", "krishan"}

techs == {"brooke", "dave", "duncan"}

\* self.slots = range(9, 17)
manager_slots == 9..16

base_prices == [service \in {"consultation", "surgery"} |->
                   IF service = "consultation" THEN 50 ELSE 200]

demand == [time \in 9..16 |->
              CASE time = 9 -> 5 [] time = 10 -> 10 [] time = 11 -> 7 [] time = 12 -> 8
                [] time = 13 -> 12 [] time = 14 -> 1 [] time = 15 -> 6 [] time = 16 -> 3]

Appointment(time, vet, tech, service, price) ==
    [time |-> time, vet |-> vet, tech |-> tech, service |-> service, price |-> price]

\* calculate_price, for a service of base_prices and a time of demand; the
\* products by 1.2, 1.5 and 2.0 of the base prices are whole numbers
CalculatePrice(service, time) ==
    LET base_price == base_prices[service]
        demand_count == demand[time]
    IN  IF demand_count < 5 THEN base_price
        ELSE IF demand_count < 10 THEN (base_price * 12) \div 10
        ELSE IF demand_count < 15 THEN (base_price * 15) \div 10
        ELSE base_price * 2

\* availability that looks at the vet only
IsAvailable_VetOnly(appointments, vet, tech, time) ==
    ~ \E i \in 1..Len(appointments) :
          /\ time = appointments[i].time
          /\ vet = appointments[i].vet

\* is_available: no appointment at this time has the vet or the tech
IsAvailable(appointments, vet, tech, time) ==
    ~ \E i \in 1..Len(appointments) :
          /\ time = appointments[i].time
          /\ (vet = appointments[i].vet \/ tech = appointments[i].tech)

\* the arguments of the calls: times in and around range(9, 17), known and
\* unknown staff, priced and unpriced services
ManagerTimes == {8, 9, 14, 17}

ManagerVets == {"sri", "saurabh", "nobody"}

ManagerTechs == {"brooke", "dave", "nobody"}

ManagerServices == {"consultation", "surgery", "grooming"}

InitManager ==
    /\ schedule = ScheduleOf({})
    /\ staff_roster = RosterOf({})
    /\ visit_type = "consult"
    /\ customer = Customer("cust1", 10, 5)
    /\ pet = Pet("pet1", "dog", 50)
    /\ expiring_inventory = NoInventory
    /\ start_date = At(1, 9, 0, 0)
    /\ NoCall

manager_frame == <<inputs, pc, gen_vars, chk_vars, score_vars, best_vars, shared_vars, now,
                   iteration>>

\* a call of schedule_appointment; a service that base_prices does not hold
\* raises KeyError in calculate_price, before the append
ScheduleAppointment ==
    /\ \E time \in ManagerTimes, vet \in ManagerVets, tech \in ManagerTechs,
          service \in ManagerServices :
          IF /\ vet \in vets
             /\ tech \in techs
             /\ time \in manager_slots
             /\ IsAvailable(scheduled, vet, tech, time)
          THEN IF service \in DOMAIN base_prices
               THEN /\ scheduled' = Append(scheduled,
                                           Appointment(time, vet, tech, service,
                                                       CalculatePrice(service, time)))
                    /\ returned' = "True"
               ELSE /\ scheduled' = scheduled
                    /\ returned' = "KeyError"
          ELSE /\ scheduled' = scheduled
               /\ returned' = "False"
    /\ UNCHANGED manager_frame

\* a call of clear_schedules, which returns None
ClearSchedules ==
    /\ scheduled' = <<>>
    /\ returned' = "None"
    /\ UNCHANGED manager_frame

NextManager == ScheduleAppointment \/ ClearSchedules

SpecManager == InitManager /\ [][NextManager]_vars

----------------------------------------------------------------------------
(* Properties of calculate_slot_score and get_three_best_appointments,     *)
(* checked under Spec                                                      *)

ResolvedDuration == GetAppointmentDetails(proposed_time, visit_type, pet).duration

GateClosed ==
    CheckStaffAvailability(proposed_time, ResolvedDuration, staff_roster, schedule,
                           visit_type) = {}

\* C1 (hard gate): whenever _check_staff_availability over the resolved
\* duration returns the empty set, calculate_slot_score returns exactly 0,
\* whatever the other factors would have contributed.
C1_HardGate == (pc = "scored" /\ GateClosed) => score = 0

\* C1 witness: a scored time with no available staff although the roster is
\* not empty, the time is preferred and the inventory factor is positive.
C1_Witness ==
    /\ pc = "scored"
    /\ GateClosed
    /\ DOMAIN staff_roster # {}
    /\ IsTimeInPreferredRange(proposed_time, visit_type)
    /\ visit_type \in DOMAIN expiring_inventory
    /\ expiring_inventory[visit_type] > 0
    /\ score = 0

InventoryInRange ==
    \A vt \in DOMAIN expiring_inventory :
        0 <= expiring_inventory[vt] /\ expiring_inventory[vt] <= 10

\* C5 (bounded score): with inventory fractions in [0,1] and a non-empty
\* roster, the value calculate_slot_score returns lies in [0, 100].
C5_BoundedScore ==
    (pc = "scored" /\ InventoryInRange /\ DOMAIN staff_roster # {})
        => (0 <= score /\ score <= Points(100))

\* C5 witness: the bound is reached, a score of exactly 100 with every factor
\* at its maximum.
C5_Witness ==
    /\ pc = "scored"
    /\ InventoryInRange
    /\ DOMAIN staff_roster # {}
    /\ score = Points(100)

\* number of scored times ranked ahead of the i-th: a higher score, or the
\* same score and an earlier place in the input
RankOf(i) ==
    Cardinality({j \in 1..Len(scored_times) :
                    \/ scored_times[j][2] > scored_times[i][2]
                    \/ (scored_times[j][2] = scored_times[i][2] /\ j < i)})

\* C4 (top-N selection): get_three_best_appointments returns the min(3, n)
\* times with the highest scores, in descending score order, equal scores in
\* their input order; [(t1,50),(t2,80),(t3,10),(t4,80)] gives [t2, t4, t1];
\* fewer than three candidates give fewer results, none gives the empty list.
C4_TopThree ==
    /\ pc = "selected" =>
          /\ Len(best) = Min(3, Len(scored_times))
          /\ Len(scored_times) = Len(potential_slots)
          /\ \A k \in 1..Len(best) :
                \E i \in 1..Len(scored_times) :
                    /\ RankOf(i) = k - 1
                    /\ best[k] = scored_times[i][1]
                    /\ potential_slots[i] = best[k]
    /\ TopThree(<< <<1, 50>>, <<2, 80>>, <<3, 10>>, <<4, 80>> >>) = <<2, 4, 1>>

\* C4 witness: more than three scored slots with different scores, and two
\* results of equal score that keep their input order although the later one
\* in time came first in the input.
C4_Witness ==
    /\ pc = "selected"
    /\ Len(scored_times) > 3
    /\ \E i, j \in 1..Len(scored_times) : scored_times[i][2] # scored_times[j][2]
    /\ \E i, j \in 1..Len(scored_times) :
          /\ i < j
          /\ scored_times[i][2] = scored_times[j][2]
          /\ scored_times[i][1] > scored_times[j][1]
          /\ \E k \in 1..(Len(best) - 1) :
                best[k] = scored_times[i][1] /\ best[k + 1] = scored_times[j][1]

----------------------------------------------------------------------------
(* Properties of _check_staff_availability, checked under SpecAvail        *)

\* the steps time + 15k minutes with 0 <= 15k < duration
StepsOf(time, duration) ==
    {time + Minutes(15 * k) : k \in {j \in 0..duration : 15 * j < duration}}

BookedSteps(time, duration, staff_id) ==
    {k \in StepsOf(time, duration) :
        k \in DOMAIN schedule /\ schedule[k].staff_id = staff_id}

\* C7 (availability checker): _check_staff_availability returns exactly the
\* staff s of the roster that are capable of the category, are not within
\* [lunch_start, lunch_start + 60 min) at time, and have no schedule entry of
\* their own keyed at a step time + 15k minutes, 0 <= 15k < duration; an entry
\* of another staff member never removes s.
C7_AvailabilityChecker ==
    pc = "checked" =>
        available_staff =
            {s \in DOMAIN staff_roster :
                /\ visit_type \in staff_roster[s].capabilities
                /\ ~(staff_roster[s].lunch_start <= chk_time
                       /\ chk_time < staff_roster[s].lunch_start + Minutes(60))
                /\ BookedSteps(chk_time, chk_duration, s) = {}}

\* C7 witness: a check that returns one staff member although another one's
\* entry is keyed inside the interval, and leaves out a capable staff member
\* for an entry of their own keyed after the first step.
C7_Witness ==
    /\ pc = "checked"
    /\ \E s \in available_staff :
          \E k \in StepsOf(chk_time, chk_duration) :
              k \in DOMAIN schedule /\ schedule[k].staff_id # s
    /\ \E s \in DOMAIN staff_roster \ available_staff :
          /\ visit_type \in staff_roster[s].capabilities
          /\ BookedSteps(chk_time, chk_duration, s) # {}
          /\ chk_time \notin BookedSteps(chk_time, chk_duration, s)

----------------------------------------------------------------------------
(* Properties of generate_potential_slots, checked under SpecGen and       *)
(* SpecHorizon                                                             *)

Candidates == {potential_slots[i] : i \in 1..Len(potential_slots)}

Duration == GenDuration(visit_type, pet)

PaddedDuration ==
    Duration + visit_configs[visit_type].padding_before
             + visit_configs[visit_type].padding_after

StaffForSpan(t) ==
    CheckStaffAvailability(t, PaddedDuration, staff_roster, schedule, visit_type)

\* C2 as stated (conflict-freedom over the padded span): no candidate has a
\* schedule entry keyed at a 15-minute step within duration + padding_before
\* + padding_after minutes from it.
C2_ConflictFreePaddedSpan ==
    pc = "generated" =>
        \A t \in Candidates : StepsOf(t, PaddedDuration) \cap DOMAIN schedule = {}

\* C2 amended (conflict-freedom over the visit): no candidate has a schedule
\* entry keyed at a 15-minute step within [t, t + duration), the interval the
\* generator's conflict check walks.
C2_ConflictFreeDuration ==
    pc = "generated" =>
        \A t \in Candidates : StepsOf(t, Duration) \cap DOMAIN schedule = {}

\* C2 witness: a returned candidate with an entry keyed at a step of its
\* padding, behind its duration, and an entry's own start time left out
\* although staff is available there for the padded span.
C2_Witness ==
    /\ pc = "generated"
    /\ \E t \in Candidates :
          (StepsOf(t, PaddedDuration) \ StepsOf(t, Duration)) \cap DOMAIN schedule # {}
    /\ \E k \in DOMAIN schedule :
          /\ k \notin Candidates
          /\ (k + Minutes(15)) \in Candidates
          /\ IsTimeInPreferredRange(k, visit_type)
          /\ StaffForSpan(k) # {}

\* C3 (weekend exclusion): generate_potential_slots never returns a time
\* whose weekday is Saturday or Sunday, also for a start_date on a weekend.
C3_WeekendExclusion ==
    pc \in {"gen", "generated"} => \A t \in Candidates : Weekday(t) \in 0..4

\* C3 witness: a call that started on a Saturday or Sunday and returned
\* candidates.
C3_Witness ==
    /\ pc = "generated"
    /\ Weekday(start_date) \in {5, 6}
    /\ potential_slots # <<>>

\* number of business days among the calendar days from..to
BusinessDays(from, to) == Cardinality({d \in from..to : d % 7 < 5})

\* day is one of the first five business days on or after start_date's date
InHorizon(day) ==
    /\ day >= DayOf(start_date)
    /\ day % 7 < 5
    /\ BusinessDays(DayOf(start_date), day) <= 5

\* C9 (horizon): every candidate falls on one of the first five business days
\* on or after start_date's calendar date, weekend days not counting toward
\* the five, and the enumeration terminates for every start_date.
C9_Horizon ==
    /\ [](pc \in {"gen", "generated"} => \A t \in Candidates : InHorizon(DayOf(t)))
    /\ (pc = "gen") ~> (pc = "generated")

\* C9 witness: a finished call whose candidates reach the fifth business day,
\* behind a weekend that was skipped.
C9_Witness ==
    /\ pc = "generated"
    /\ \E t \in Candidates :
          /\ BusinessDays(DayOf(start_date), DayOf(t)) = 5
          /\ DayOf(t) - DayOf(start_date) >= 6

\* C10 (chronological output): the returned sequence is strictly increasing
\* in time, so it holds no start time twice.
C10_Chronological ==
    pc \in {"gen", "generated"} =>
        \A i \in 1..(Len(potential_slots) - 1) : potential_slots[i] < potential_slots[i + 1]

\* C10 witness: a returned sequence that runs over more than one day.
C10_Witness ==
    /\ pc = "generated"
    /\ Len(potential_slots) > 1
    /\ DayOf(potential_slots[1]) < DayOf(potential_slots[Len(potential_slots)])

HorizonDaySet == {d \in DayOf(start_date)..(DayOf(start_date) + 7) : InHorizon(d)}

\* the 15-minute marks from 09:00 up to, excluding, 17:00 of the horizon
QuarterHourMarks ==
    {At(d, h, m, 0) : d \in HorizonDaySet, h \in 9..16, m \in {0, 15, 30, 45}}

\* C6 (generator membership): a 15-minute mark from 09:00 to before 17:00 on
\* a business day of the horizon is returned iff (a) its hour lies in a
\* preferred range, (b) staff is available over duration + padding_before +
\* padding_after, (c) no 15-minute step in [t, t + duration) is a schedule
\* key; no other time is returned.
C6_Membership ==
    pc = "generated" =>
        Candidates =
            {t \in QuarterHourMarks :
                /\ \E i \in 1..Len(visit_configs[visit_type].preferred_time_ranges) :
                      LET range == visit_configs[visit_type].preferred_time_ranges[i]
                      IN  range[1] <= Hour(t) /\ Hour(t) <= range[2]
                /\ StaffForSpan(t) # {}
                /\ StepsOf(t, Duration) \cap DOMAIN schedule = {}}

\* s is within the hour of the day that its lunch break takes
AtDailyLunch(s, t) ==
    LET lunch == TimeOfDay(staff_roster[s].lunch_start)
    IN  lunch <= TimeOfDay(t) /\ TimeOfDay(t) < lunch + Minutes(60)

\* C8 (daily lunch break): on every business day of the horizon a staff
\* member is not counted as available for a time whose time of day lies in
\* [lunch start, lunch start + 60 min), and a time at which every capable
\* staff member is at lunch is never a candidate.
C8_DailyLunch ==
    pc = "generated" =>
        \A t \in Candidates :
            /\ \A s \in StaffForSpan(t) : ~AtDailyLunch(s, t)
            /\ \E s \in DOMAIN staff_roster :
                  /\ visit_type \in staff_roster[s].capabilities
                  /\ ~AtDailyLunch(s, t)

----------------------------------------------------------------------------
(* Properties of callers sharing one snapshot, checked under SpecShared    *)

SnapshotKept ==
    /\ schedule' = schedule
    /\ staff_roster' = staff_roster
    /\ expiring_inventory' = expiring_inventory
    /\ caller_slots' = caller_slots

\* what each finished call returns when it runs alone on the snapshot
ResultsAsAlone ==
    /\ op_pc["generate"] = "done" =>
          potential_slots = GeneratePotentialSlots(schedule, staff_roster, visit_type, pet,
                                                   start_date)
    /\ op_pc["check"] = "done" =>
          available_staff = CheckStaffAvailability(chk_time, chk_duration, staff_roster,
                                                   schedule, visit_type)
    /\ op_pc["score"] = "done" =>
          score = CalculateSlotScore(proposed_time, schedule, staff_roster, visit_type,
                                     customer, pet, expiring_inventory)
    /\ op_pc["select"] = "done" =>
          best = TopThree(ScoredTimes(caller_slots, schedule, staff_roster, visit_type,
                                      customer, pet, expiring_inventory,
                                      time_slot_generator))

\* C11 (read-only snapshot): no step of generate_potential_slots,
\* _check_staff_availability, calculate_slot_score (with
\* get_appointment_details) or get_three_best_appointments changes the
\* schedule, the roster, the inventory mapping or the caller's potential_slots
\* list, and however the steps of the calls interleave, each finished call
\* holds the result it gives when run alone on the snapshot.
C11_ReadOnlySnapshot == [][SnapshotKept]_vars /\ []ResultsAsAlone

\* C11 witness: all four calls have finished on a non-empty schedule, and the
\* selection ranked the caller's list into an order other than the list's own.
C11_Witness ==
    /\ \A op \in Operations : op_pc[op] = "done"
    /\ DOMAIN schedule # {}
    /\ potential_slots # <<>>
    /\ best # <<>>
    /\ best # SubSeq(caller_slots, 1, Len(best))

----------------------------------------------------------------------------
(* Properties of generate_potential_slots on fully booked days, checked    *)
(* under SpecBooked                                                        *)

\* every staff member of the roster capable of VACCINATION has an entry of
\* its own at every 15-minute step of every day of the horizon
FullyBooked ==
    \A s \in DOMAIN staff_roster :
        "vaccination" \in staff_roster[s].capabilities =>
            \A t \in QuarterHourMarks :
                t \in DOMAIN schedule /\ schedule[t].staff_id = s

\* C13 (fully booked roster): when every staff member capable of VACCINATION
\* is booked at every 15-minute step of the days of the horizon,
\* generate_potential_slots for VACCINATION returns the empty sequence.
C13_FullyBooked ==
    (pc = "generated" /\ visit_type = "vaccination" /\ FullyBooked)
        => potential_slots = <<>>

----------------------------------------------------------------------------
(* Properties of the factors of calculate_slot_score, checked under        *)
(* SpecFactors                                                             *)

Details == GetAppointmentDetails(proposed_time, visit_type, pet)

\* the schedule holds exactly one entry, padding_before - 1 minutes from the
\* proposed time
OneEntryInsidePadding ==
    /\ Cardinality(DOMAIN schedule) = 1
    /\ \A k \in DOMAIN schedule :
          Abs(k - proposed_time) = Minutes(Details.padding_before - 1)

\* the entries closer to the proposed time than the padding of the category
\* (padding_before and padding_after are equal in every policy)
InsidePadding ==
    {k \in DOMAIN schedule :
        Abs(k - proposed_time) < Minutes(visit_configs[visit_type].padding_before)}

\* C14 as stated (padding penalty): with exactly one schedule entry
\* padding_before - 1 minutes from the proposed time, the padding factor of
\* calculate_slot_score is 10 - 2 = 8.
C14_PaddingPenaltyEight ==
    (pc = "scored" /\ OneEntryInsidePadding)
        => PaddingFactor(schedule, proposed_time, Details) = 8

\* C14 (padding penalty, amended): with exactly one schedule entry
\* padding_before - 1 minutes from the proposed time, the padding factor is
\* 10 - 2 - 2 = 6, the one distance being compared with padding_before and
\* with padding_after, which are equal in every policy; the factor is 10 when
\* no entry is closer than the padding, loses 4 for every entry that is, and
\* is floored at 0 as a whole.
C14_PaddingPenalty ==
    pc = "scored" =>
        /\ OneEntryInsidePadding => PaddingFactor(schedule, proposed_time, Details) = 6
        /\ \A vt \in VisitType :
              visit_configs[vt].padding_after = visit_configs[vt].padding_before
        /\ PaddingFactor(schedule, proposed_time, Details)
              = (IF 4 * Cardinality(InsidePadding) >= 10
                 THEN 0 ELSE 10 - 4 * Cardinality(InsidePadding))

\* C14 witness: a scored time with available staff whose only schedule entry
\* is padding_before - 1 minutes away, and the factor is 6.
C14_Witness ==
    /\ pc = "scored"
    /\ OneEntryInsidePadding
    /\ score > 0
    /\ PaddingFactor(schedule, proposed_time, Details) = 6

\* the score of the same call with an empty inventory mapping
ScoreWithoutInventory ==
    CalculateSlotScore(proposed_time, schedule, staff_roster, visit_type, customer, pet,
                       NoInventory)

\* C15 (inventory urgency): for a proposed time that has available staff, the
\* inventory factor adds 10 * inventory[category] points to the score, all
\* other factors being the same: exactly 10 points when the inventory is
\* {VACCINATION: 1.0} and the category is VACCINATION, and exactly 0 when the
\* category is absent from the inventory mapping.
C15_InventoryUrgency ==
    (pc = "scored" /\ ~GateClosed) =>
        /\ visit_type \in DOMAIN expiring_inventory =>
              score - ScoreWithoutInventory = ScoreScale * expiring_inventory[visit_type]
        /\ (visit_type = "vaccination" /\ expiring_inventory = [vt \in {"vaccination"} |-> 10]) =>
              score - ScoreWithoutInventory = Points(10)
        /\ visit_type \notin DOMAIN expiring_inventory => score = ScoreWithoutInventory

\* C15 witness: a VACCINATION time with available staff scored with the
\* inventory {VACCINATION: 1.0}, 10 points above the score without inventory.
C15_Witness ==
    /\ pc = "scored"
    /\ ~GateClosed
    /\ visit_type = "vaccination"
    /\ expiring_inventory = [vt \in {"vaccination"} |-> 10]
    /\ score = ScoreWithoutInventory + Points(10)

----------------------------------------------------------------------------
(* Empty roster and empty candidate list, checked under Spec               *)

\* C16 (empty roster or empty candidate list): with an empty staff roster
\* get_three_best_appointments returns an empty result, and with an empty
\* candidate list it returns an empty list.
C16_EmptyResults ==
    pc = "selected" =>
        /\ DOMAIN staff_roster = {} => best = <<>>
        /\ potential_slots = <<>> => best = <<>>

----------------------------------------------------------------------------
(* The adjustment layer of get_three_best_appointments, checked under Spec *)

BaseScore(t) ==
    CalculateSlotScore(t, schedule, staff_roster, visit_type, customer, pet,
                       expiring_inventory)

DurationBonus ==
    IF GenDuration(visit_type, pet) = visit_configs[visit_type].recommended_duration
    THEN Points(5) ELSE 0

NonPreferredPenalty(t) ==
    IF IsTimeInPreferredRange(t, visit_type) THEN 0 ELSE Points(10)

\* C17 (adjustment layer): with a generator supplied, the score
\* get_three_best_appointments ranks a candidate by is calculate_slot_score
\* plus 5 if the resolved duration equals the recommended duration of the
\* category, minus 10 if the candidate's hour is outside the preferred ranges
\* of the category; both adjustments are made whatever the base score is,
\* also when it is 0 or lacks the preferred-time factor.
C17_AdjustmentLayer ==
    (pc = "selected" /\ time_slot_generator) =>
        /\ Len(scored_times) = Len(potential_slots)
        /\ \A i \in 1..Len(potential_slots) :
              /\ scored_times[i][1] = potential_slots[i]
              /\ scored_times[i][2] = BaseScore(potential_slots[i]) + DurationBonus
                                          - NonPreferredPenalty(potential_slots[i])

\* C17 witness: one selection holds a candidate outside the preferred hours
\* that has available staff, ranked by its base score plus 5 minus 10, and a
\* candidate inside the preferred hours ranked by its base score plus 5.
C17_Witness ==
    /\ pc = "selected"
    /\ time_slot_generator
    /\ DurationBonus = Points(5)
    /\ \E i \in 1..Len(potential_slots) :
          /\ BaseScore(potential_slots[i]) > 0
          /\ ~IsTimeInPreferredRange(potential_slots[i], visit_type)
          /\ scored_times[i][2] = BaseScore(potential_slots[i]) - Points(5)
    /\ \E i \in 1..Len(potential_slots) :
          /\ IsTimeInPreferredRange(potential_slots[i], visit_type)
          /\ scored_times[i][2] = BaseScore(potential_slots[i]) + Points(5)

----------------------------------------------------------------------------
(* Duration resolution, reliability and the policy table, checked under    *)
(* SpecFactors                                                             *)

\* C18 (duration resolution): the effective duration is the maximum duration
\* of the policy if health_complexity > 0.7, its minimum duration if
\* health_complexity < 0.3 and its recommended duration otherwise, also at
\* exactly 0.3 and exactly 0.7; generate_potential_slots resolves the same
\* duration as get_appointment_details for the same category and pet.
C18_DurationResolution ==
    pc = "scored" =>
        /\ pet.health_complexity > 70 =>
              Details.duration = visit_configs[visit_type].max_duration
        /\ pet.health_complexity < 30 =>
              Details.duration = visit_configs[visit_type].min_duration
        /\ (30 <= pet.health_complexity /\ pet.health_complexity <= 70) =>
              Details.duration = visit_configs[visit_type].recommended_duration
        /\ GenDuration(visit_type, pet) = Details.duration

\* C18 witness: a pet at exactly 0.7 scored for a category whose maximum
\* duration differs from the recommended one, resolved to the recommended
\* duration by both functions.
C18_Witness ==
    /\ pc = "scored"
    /\ pet.health_complexity = 70
    /\ visit_configs[visit_type].max_duration # visit_configs[visit_type].recommended_duration
    /\ Details.duration = visit_configs[visit_type].recommended_duration
    /\ GenDuration(visit_type, pet) = visit_configs[visit_type].recommended_duration

Unreliable == customer.late_history > 20 \/ customer.no_show_history > 10

PeakHours == Hour(proposed_time) \in 10..15

\* the score of the same call for a customer without late arrivals and no-shows
ScoreOfReliableCustomer ==
    CalculateSlotScore(proposed_time, schedule, staff_roster, visit_type,
                       Customer(customer.id, 0, 0), pet, expiring_inventory)

\* C19 (customer reliability factor): a customer is unreliable iff the late
\* rate is > 0.2 or the no-show rate is > 0.1, both strict; an unreliable
\* customer gets 10 points in peak hours and 5 otherwise, a reliable customer
\* 5 in peak hours and 10 otherwise, peak hours being the hours 10 to 15
\* inclusive; for a time with available staff the score differs from the
\* score of a reliable customer by exactly the difference of the factors.
C19_Reliability ==
    pc = "scored" =>
        /\ (Unreliable /\ PeakHours) => ReliabilityFactor(customer, proposed_time) = 10
        /\ (Unreliable /\ ~PeakHours) => ReliabilityFactor(customer, proposed_time) = 5
        /\ (~Unreliable /\ PeakHours) => ReliabilityFactor(customer, proposed_time) = 5
        /\ (~Unreliable /\ ~PeakHours) => ReliabilityFactor(customer, proposed_time) = 10
        /\ ~GateClosed =>
              score - ScoreOfReliableCustomer
                  = (IF ~Unreliable THEN 0 ELSE IF PeakHours THEN Points(5) ELSE Points(-5))

\* C19 witness: a customer at exactly 0.2 late rate and 0.1 no-show rate,
\* scored at 15:45 with available staff, gets the 5 points of a reliable
\* customer in peak hours.
C19_Witness ==
    /\ pc = "scored"
    /\ ~GateClosed
    /\ customer.late_history = 20
    /\ customer.no_show_history = 10
    /\ proposed_time = At(1, 15, 45, 0)
    /\ ReliabilityFactor(customer, proposed_time) = 5
    /\ score = ScoreOfReliableCustomer

\* C20 (policy table coverage): the visit policy table has an entry for every
\* member of VisitType, and for every category and every health-complexity
\* value the resolved duration is one of 15, 30, 45 and 60 minutes: for the
\* category of the request with every health complexity from 0.00 to 1.00,
\* and for the duration a scored call resolved.
C20_PolicyTable ==
    /\ VisitType \subseteq DOMAIN visit_configs
    /\ pc = "start" =>
          \A hc \in 0..100 :
              /\ GenDuration(visit_type, Pet(pet.id, pet.species, hc)) \in {15, 30, 45, 60}
              /\ GetAppointmentDetails(start_date, visit_type,
                                       Pet(pet.id, pet.species, hc)).duration
                     \in {15, 30, 45, 60}
    /\ pc = "scored" => Details.duration \in {15, 30, 45, 60}

\* C20 witness: a call scored for the last member of VisitType, SPECIALTY,
\* with the minimum duration of its table entry, 45 minutes.
C20_Witness ==
    /\ pc = "scored"
    /\ visit_type = "specialty"
    /\ visit_type \in DOMAIN visit_configs
    /\ pet.health_complexity < 30
    /\ Details.duration = 45

----------------------------------------------------------------------------
(* Candidates of generate_potential_slots handed to calculate_slot_score,  *)
(* checked under SpecGen                                                   *)

CandidateScore(t) ==
    CalculateSlotScore(t, schedule, staff_roster, visit_type, customer, pet,
                       expiring_inventory)

\* C21 (candidates pass the hard gate): every candidate that
\* generate_potential_slots returns has, over the resolved duration alone, at
\* least the staff it has over duration + padding, and calculate_slot_score
\* with the same schedule, roster, category and pet gives it a score strictly
\* greater than 0.
C21_CandidatesPassGate ==
    pc = "generated" =>
        \A t \in Candidates :
            /\ StaffForSpan(t) \subseteq
                  CheckStaffAvailability(t, Duration, staff_roster, schedule, visit_type)
            /\ CandidateScore(t) > 0

\* C21 witness: a finished call on a non-empty schedule returned a candidate
\* that has more staff available over the duration than over the padded span.
C21_Witness ==
    /\ pc = "generated"
    /\ DOMAIN schedule # {}
    /\ \E t \in Candidates :
          /\ StaffForSpan(t) # {}
          /\ StaffForSpan(t) # CheckStaffAvailability(t, Duration, staff_roster, schedule,
                                                      visit_type)
          /\ CandidateScore(t) > 0

----------------------------------------------------------------------------
(* Gated and ungated potential slots in one selection, checked under Spec  *)

\* no staff is available for t over the resolved duration
Gated(t) ==
    CheckStaffAvailability(t, GetAppointmentDetails(t, visit_type, pet).duration,
                           staff_roster, schedule, visit_type) = {}

BestTimes == {best[i] : i \in 1..Len(best)}

\* C22 (gated slots rank last): in a call of get_three_best_appointments with
\* a generator and inventory fractions in [0,1], the final score of a
\* potential slot with no available staff is below the final score of every
\* potential slot with available staff; in the returned list no gated slot
\* stands before an ungated one, and a gated slot is returned only if every
\* ungated potential slot is.
C22_GatedRankLast ==
    (pc = "selected" /\ time_slot_generator /\ InventoryInRange) =>
        /\ \A i, j \in 1..Len(scored_times) :
              (Gated(scored_times[i][1]) /\ ~Gated(scored_times[j][1]))
                  => scored_times[i][2] < scored_times[j][2]
        /\ \A i, j \in 1..Len(best) :
              (i < j /\ Gated(best[i])) => Gated(best[j])
        /\ (\E t \in BestTimes : Gated(t)) =>
              \A i \in 1..Len(potential_slots) :
                  ~Gated(potential_slots[i]) => potential_slots[i] \in BestTimes

\* C22 witness: a gated slot in the preferred hours with the duration bonus
\* was passed in front of an ungated slot outside the preferred hours, and
\* the ungated slot is returned in front of it.
C22_Witness ==
    /\ pc = "selected"
    /\ time_slot_generator
    /\ InventoryInRange
    /\ DurationBonus = Points(5)
    /\ \E i, j \in 1..Len(best) :
          /\ i < j
          /\ ~Gated(best[i])
          /\ ~IsTimeInPreferredRange(best[i], visit_type)
          /\ Gated(best[j])
          /\ IsTimeInPreferredRange(best[j], visit_type)
          /\ \E k, l \in 1..Len(potential_slots) :
                k < l /\ potential_slots[k] = best[j] /\ potential_slots[l] = best[i]

----------------------------------------------------------------------------
(* Properties of generate_dummy_schedule, checked under SpecBooking        *)

Entries == Cardinality(DOMAIN schedule)

\* an iteration of the loop that booked a time
Booked == iteration' = iteration + 1 /\ potential_slots' # <<>> /\ available_staff' # {}

\* C23 (serialized booking): in every pass that generates candidates from
\* the current schedule, picks one and books it as schedule[t], t is not a
\* key of the schedule before the booking, every existing entry is kept as
\* it is, the number of entries grows by exactly one, and at all times every
\* entry's key equals its value's start time.
C23_SerializedBooking ==
    /\ [][Booked =>
            /\ chk_time' \notin DOMAIN schedule
            /\ DOMAIN schedule' = DOMAIN schedule \cup {chk_time'}
            /\ \A k \in DOMAIN schedule : schedule'[k] = schedule[k]
            /\ Cardinality(DOMAIN schedule') = Entries + 1]_vars
    /\ [][~Booked => schedule' = schedule]_vars
    /\ [](\A k \in DOMAIN schedule : schedule[k].start_time = k)

\* C23 witness: two passes have booked two entries, the second one at a time
\* inside the visit booked first.
C23_Witness ==
    /\ pc = "booked"
    /\ Entries = 2
    /\ \E k1, k2 \in DOMAIN schedule :
          k1 < k2 /\ k2 < schedule[k1].end_time

\* two entries of one staff member whose intervals [start_time, end_time)
\* overlap
DoubleBooked(k1, k2) ==
    /\ k1 # k2
    /\ schedule[k1].staff_id = schedule[k2].staff_id
    /\ schedule[k1].start_time < schedule[k2].end_time
    /\ schedule[k2].start_time < schedule[k1].end_time

\* C24 (no staff double-booking): starting from an empty schedule, after any
\* sequence of generate, pick a candidate, pick an available staff member,
\* book, no staff member has two visits whose intervals [start_time,
\* end_time) overlap.
C24_NoDoubleBooking == \A k1, k2 \in DOMAIN schedule : ~DoubleBooked(k1, k2)

----------------------------------------------------------------------------
(* Further properties of generate_potential_slots, checked under SpecGen   *)

\* C25 (no candidate in the past): for every start_date passed by the
\* caller, also one with a time of day after 09:00, every time that
\* generate_potential_slots returns is at or after start_date.
C25_NoCandidateInThePast ==
    pc = "generated" => \A t \in Candidates : t >= start_date

\* C26 (visits end within the working day): for every candidate t that
\* generate_potential_slots returns, the visit interval [t, t + resolved
\* duration) ends no later than 17:00 of the day of t.
C26_EndsWithinWorkingDay ==
    pc = "generated" =>
        \A t \in Candidates : t + Minutes(Duration) <= At(DayOf(t), 17, 0, 0)

\* the schedule restricted to keys
Restricted(keys) == [k \in keys |-> schedule[k]]

CandidatesOf(sched) ==
    LET slots == GeneratePotentialSlots(sched, staff_roster, visit_type, pet, start_date)
    IN  {slots[i] : i \in 1..Len(slots)}

\* C27 (monotonicity in the schedule): for fixed roster, category, pet and
\* start_date, the candidates generated from the schedule are among the
\* candidates generated from every schedule it extends, and stand in the
\* same (strictly increasing) order, so they are a subsequence of them:
\* adding entries never adds a candidate.
C27_Monotonicity ==
    pc = "generated" =>
        /\ \A i \in 1..(Len(potential_slots) - 1) :
              potential_slots[i] < potential_slots[i + 1]
        /\ \A keys \in SUBSET DOMAIN schedule :
              LET slots == GeneratePotentialSlots(Restricted(keys), staff_roster, visit_type,
                                                  pet, start_date)
              IN  /\ \A i \in 1..(Len(slots) - 1) : slots[i] < slots[i + 1]
                  /\ Candidates \subseteq {slots[i] : i \in 1..Len(slots)}

\* C27 witness: a finished call on a schedule of two entries that returns
\* candidates, fewer than the schedule without either entry gives, and fewer
\* than the empty schedule gives.
C27_Witness ==
    /\ pc = "generated"
    /\ Cardinality(DOMAIN schedule) = 2
    /\ potential_slots # <<>>
    /\ \A k \in DOMAIN schedule :
          Candidates # CandidatesOf(Restricted(DOMAIN schedule \ {k}))
    /\ Candidates # CandidatesOf(Restricted({}))

OnQuarterHourMarks ==
    /\ start_date % 60 = 0
    /\ \A k \in DOMAIN schedule : k % Minutes(15) = 0

CandidatePadding(t) ==
    PaddingFactor(schedule, t, GetAppointmentDetails(t, visit_type, pet))

\* C28 (candidates keep the padding points): for a schedule whose keys all
\* lie on 15-minute marks and a start_date with zero seconds, every candidate
\* that generate_potential_slots returns gets the full 10 points of the
\* padding factor of calculate_slot_score; no padding exceeds 15 minutes and
\* no candidate is a key of the schedule.
C28_CandidatesKeepPadding ==
    (pc = "generated" /\ OnQuarterHourMarks) =>
        /\ \A vt \in VisitType :
              visit_configs[vt].padding_before <= 15 /\ visit_configs[vt].padding_after <= 15
        /\ \A t \in Candidates : t \notin DOMAIN schedule /\ CandidatePadding(t) = 10

\* C28 witness: a finished call returned a candidate that is exactly the
\* padding of the category, 15 minutes, from an entry of the schedule and
\* has the full 10 points.
C28_Witness ==
    /\ pc = "generated"
    /\ OnQuarterHourMarks
    /\ visit_configs[visit_type].padding_before = 15
    /\ \E t \in Candidates :
          /\ \E k \in DOMAIN schedule : Abs(k - t) = Minutes(15)
          /\ CandidatePadding(t) = 10

HalfHourMarks == {At(DayOf(now), 9, 0, 0) + Minutes(30) * k : k \in 0..15}

NoSharedStaff ==
    \A i, j \in 1..Len(scheduled) :
        (i # j /\ scheduled[i].time = scheduled[j].time) =>
            /\ scheduled[i].vet # scheduled[j].vet
            /\ scheduled[i].tech # scheduled[j].tech

KnownAppointments ==
    \A i \in 1..Len(scheduled) :
        /\ scheduled[i].vet \in vets
        /\ scheduled[i].tech \in techs
        /\ scheduled[i].time \in 9..16

\* C30 (ScheduleManager): after any sequence of schedule_appointment and
\* clear_schedules calls no two scheduled appointments share the same time
\* and the same vet, or the same time and the same tech, and every scheduled
\* appointment has a known vet, a known tech and a time in 9..16; a call of
\* schedule_appointment that returns False leaves the scheduled list as it
\* was.
C30_ScheduleManager ==
    /\ [](NoSharedStaff /\ KnownAppointments)
    /\ [][returned' = "False" => scheduled' = scheduled]_vars

\* C30 witness: two appointments stand at the same hour with different vets
\* and techs, a third has one of these vets at another hour, and the last
\* call was refused.
C30_Witness ==
    /\ returned = "False"
    /\ \E i, j, k \in 1..Len(scheduled) :
          /\ i # j
          /\ scheduled[i].time = scheduled[j].time
          /\ scheduled[k].time # scheduled[i].time
          /\ scheduled[k].vet = scheduled[i].vet

====
